---------------------------- MODULE Spec2Model ----------------------------
(***************************************************************************)
(* A model of the executable code carried by the repository's articles:    *)
(*                                                                         *)
(*   - the dynamic call-to-action selection of apps/stories/Button.jsx     *)
(*     (trackClick route, getBestPerformingButton, DynamicCTA, wrapper);   *)
(*   - the EdgeDB / D2 / KV user store of unnamed/part_000 (createUser,    *)
(*     updateUser, deleteUser, getUserData, the UserUpdated handler,       *)
(*     syncEdgeDBToD2);                                                    *)
(*   - the autocomplete cache of unnamed/part_002 (addUser,                *)
(*     handleAutocompleteRequest, syncUserToCaches, removeUserFromCaches); *)
(*   - the site itself: the content documents, the profile record DATA,    *)
(*     the docs pages (apps/docs/app/page.tsx, unnamed/part_001) and the   *)
(*     Storybook configuration (apps/.storybook/main.js).                  *)
(*                                                                         *)
(* The programs share no state.  Each has its own specification (SpecCTA,  *)
(* SpecUsers, SpecAutocomplete, SpecSite) over its own variables; the      *)
(* other programs' variables stay at their initial values.                 *)
(*                                                                         *)
(* Every action is one whole call of a handler.  A handler is a chain of   *)
(* awaits; the input `failAt` names the await that rejects (0: none), the  *)
(* awaits before it have taken effect and the ones after it have not.      *)
(* `log` is the sequence of store accesses the call made, `threw` whether  *)
(* it rejected, `ret` the value it resolved to.                            *)
(***************************************************************************)
EXTENDS Integers, Sequences, FiniteSets, TLC

VARIABLES
    \* ---- Button.jsx
    ButtonClick,    \* the ButtonClick table: the inserted records, oldest first
    selected,       \* what the selection query last resolved to
    page,           \* the element tree the last render produced
    \* ---- part_000
    edge,           \* EdgeDB's User table: id -> {name, email}
    nextId,         \* the next id EdgeDB hands out
    d2,             \* the 'user-data' durable object: key -> entry
    kv,             \* KV_CACHE: key -> entry
    \* ---- part_002
    acEdge,         \* EdgeDB's User table of the autocomplete service
    acNextId,       \* the next id it hands out
    acD2,           \* the 'autocomplete-data' durable object: key -> entry
    acKV,           \* KV_NAMESPACE: key -> entry
    synced,         \* history: the last call if it was an addUser that
                    \* completed, with both caches as they were before it
    \* ---- the site
    DATA,           \* the exported profile record
    post,           \* the content document last read: front matter and body
    sbConfig,       \* what the last load of .storybook/main.js exported
    tree,           \* the element tree the last page render returned
    history,        \* history: the site's operations so far, oldest first
    \* ---- the last call, of whichever program
    call,           \* its name and arguments
    log,            \* the store accesses it made, in order
    threw,          \* whether it rejected
    ret,            \* the value it resolved to
    calls,          \* how many calls the store services have taken
    clean           \* history: every call so far was one of the service's
                    \* write or read calls (no expiry, event, sync or
                    \* removal) and ran to completion

ctaVars  == <<ButtonClick, selected, page>>
userVars == <<edge, nextId, d2, kv>>
acVars   == <<acEdge, acNextId, acD2, acKV, synced>>
siteVars == <<DATA, post, sbConfig, tree, history>>
callVars == <<call, log, threw, ret, calls, clean>>
vars     == <<ctaVars, userVars, acVars, siteVars, callVars>>

----------------------------------------------------------------------------
(* Bounds *)

MaxClicks == 4      \* ButtonClick records inserted in a run
MaxUsers  == 2      \* users EdgeDB creates in a run of the user store
MaxAcUsers == 2     \* users EdgeDB creates in a run of the autocomplete service
MaxCalls  == 3      \* calls in a run of the user store or the autocomplete service
MaxExpiryCalls == 2 \* calls in a run of both services together with KV's expiry
MaxRenders == 3     \* operations in a run of the site

----------------------------------------------------------------------------
(* JavaScript values.  A value is a record tagged with its type, so that   *)
(* undefined, null, a string and an object can be told apart and compared. *)

Undefined == [t |-> "undefined"]
Null      == [t |-> "null"]
Str(text) == [t |-> "string", text |-> text]
UserObj(name, email) == [t |-> "object", name |-> name, email |-> email]
Arr(items) == [t |-> "array", items |-> items]

\* !v : undefined and null are falsy; a JSON text is never the empty string,
\* and objects and arrays are truthy.
Truthy(v) == v.t \notin {"undefined", "null"}

\* JSON.stringify, as the token sequence of the text it produces.
\* JSON.stringify(undefined) is undefined, not a string.
JSONStringify(v) ==
    CASE v.t = "object" -> Str(<<"{", "name", v.name, "email", v.email, "}">>)
      [] v.t = "array"  -> Str(<<"[">> \o v.items \o <<"]">>)
      [] v.t = "null"   -> Str(<<"null">>)
      [] OTHER          -> Undefined

\* Whether JSON.parse accepts the text (it throws a SyntaxError otherwise).
JSONParses(s) ==
    /\ s.t = "string"
    /\ Len(s.text) > 0
    /\ \/ s.text[1] = "{" /\ Len(s.text) = 6 /\ s.text[6] = "}"
       \/ s.text[1] = "[" /\ s.text[Len(s.text)] = "]"
       \/ s.text = <<"null">>

\* JSON.parse of a text it accepts.
JSONParse(s) ==
    CASE s.text[1] = "{" -> UserObj(s.text[3], s.text[5])
      [] s.text[1] = "[" -> Arr(SubSeq(s.text, 2, Len(s.text) - 1))
      [] OTHER           -> Null

----------------------------------------------------------------------------
(* Key-value stores: a function from the keys present to their entries.    *)

Has(m, k)    == k \in DOMAIN m
Put(m, k, e) == [x \in DOMAIN m \cup {k} |-> IF x = k THEN e ELSE m[x]]
Del(m, k)    == [x \in DOMAIN m \ {k} |-> m[x]]
Empty        == [x \in {} |-> Undefined]

IndexOf(seq, x) == CHOOSE i \in 1..Len(seq) : seq[i] = x
InSeq(seq, x)   == \E i \in 1..Len(seq) : seq[i] = x

NoCall == [op |-> "none"]
NoSync == [stage |-> "none"]

\* A call of a store service is taken: it is counted and becomes the last call.
Called(c) ==
    /\ calls < MaxCalls
    /\ calls' = calls + 1
    /\ call' = c

----------------------------------------------------------------------------
(* Button.jsx: dynamic call-to-action selection                            *)

Versions == {"A", "B", "C"}     \* what a POST body may carry as `version`

\* e.count(e.ButtonClick.filter(click => e.op(click.version, '=', v)))
Count(v) == Cardinality({i \in DOMAIN ButtonClick : ButtonClick[i].version = v})

\* A variant of the selection query, with >= in place of >.
BestNotLess == IF Count("A") >= Count("B") THEN "A" ELSE "B"

\* The selection query: count(A) > count(B) ? 'A' : 'B'
BestPerformingButton == IF Count("A") > Count("B") THEN "A" ELSE "B"

\* <button aria-label=...>Buy Now (Version {version})</button>
CTAButton(version) ==
    [tag   |-> "button",
     aria  |-> "Buy now - Version " \o version,
     text  |-> "Buy Now (Version " \o version \o ")",
     track |-> version]

\* What a rejected query's Error carries as its message.
Messages == {"connection refused", "timeout"}

\* A variant of the fallback that leaves the error's message out.
FallbackWithoutMessage(message) ==
    [tag |-> "div", aria |-> "", text |-> "Error loading CTA: ", track |-> ""]

\* <div>Error loading CTA: {error.message}</div>
FallbackComponent(message) ==
    [tag |-> "div", aria |-> "", text |-> "Error loading CTA: " \o message,
     track |-> ""]

\* A variant of DynamicCTA with the branches of its conditional swapped.
DynamicCTASwapped(bestButton) ==
    IF bestButton = "A" THEN <<CTAButton("B")>> ELSE <<CTAButton("A")>>

\* The children of DynamicCTA's <div>, given what the query resolved to.
DynamicCTA(bestButton) ==
    IF bestButton = "A" THEN <<CTAButton("A")>> ELSE <<CTAButton("B")>>

\* POST /api/trackClick: insert a ButtonClick with the body's version; a
\* failed insert is caught and answered with status 500.
trackClick(version, failAt) ==
    /\ Len(ButtonClick) < MaxClicks
    /\ call' = [op |-> "trackClick", version |-> version]
    /\ IF failAt = 1
       THEN /\ UNCHANGED ButtonClick
            /\ log' = <<>>
            /\ ret' = [t |-> "response", status |-> 500,
                       message |-> "Error tracking click"]
       ELSE /\ ButtonClick' = Append(ButtonClick, [version |-> version])
            /\ log' = <<"edgedb.insert">>
            /\ ret' = [t |-> "response", status |-> 200,
                       message |-> "Click tracked"]
    /\ threw' = FALSE
    /\ UNCHANGED <<selected, page, siteVars, userVars, acVars, calls, clean>>

\* A click on a rendered CTA button posts that button's version.
clickButton(i, failAt) ==
    /\ i \in DOMAIN page
    /\ page[i].tag = "button"
    /\ trackClick(page[i].track, failAt)

\* A request for the page: DynamicCTAWrapper renders DynamicCTA inside an
\* error boundary.  The selection query is memoised by React's cache() for
\* the one request and is awaited once in it.  When it rejects, with an
\* Error carrying `message`, the boundary catches the error and renders
\* FallbackComponent with it in place of its children.
renderDynamicCTAWrapper(failAt, message) ==
    /\ call' = [op |-> "render", error |-> IF failAt = 1 THEN message ELSE ""]
    /\ IF failAt = 1
       THEN /\ selected' = ""
            /\ page' = <<FallbackComponent(message)>>
            /\ log' = <<>>
       ELSE /\ selected' = BestPerformingButton
            /\ page' = DynamicCTA(BestPerformingButton)
            /\ log' = <<"edgedb.select">>
    /\ threw' = FALSE
    /\ ret' = Undefined
    /\ UNCHANGED <<ButtonClick, siteVars, userVars, acVars, calls, clean>>

CTANext ==
    \/ \E v \in Versions, f \in 0..1 : trackClick(v, f)
    \/ \E i \in DOMAIN page, f \in 0..1 : clickButton(i, f)
    \/ \E f \in 0..1, m \in Messages : renderDynamicCTAWrapper(f, m)

----------------------------------------------------------------------------
(* part_000: EdgeDB for writes, D2 for persistence, KV as the cache        *)

Names  == {"Ann", "Bob"}
Emails == {"ann@x.io", "bob@x.io"}

\* The ids EdgeDB hands out, as the strings the handlers receive.
IdOf(i) == "id" \o ToString(i)
UserIds == {IdOf(i) : i \in 1..MaxUsers}

\* `user:${x}`
UserKey(x) == "user:" \o x

\* What the handlers keep in D2 and KV.  `by` is history, not program
\* state: the id of the user the writing call was about ("" when unknown).
D2Entry(val, by)      == [val |-> val, by |-> by]
\* A variant of the KV put that passes no expirationTtl.
KVEntryWithoutTtl(val, ttl, by) == [val |-> val, ttl |-> 0, by |-> by]
KVEntry(val, ttl, by) == [val |-> val, ttl |-> ttl, by |-> by]

\* The awaits of a call that completed: all n of them, or those before the
\* one that rejected.
Done(failAt, n) == IF failAt = 0 THEN n ELSE failAt - 1

\* A variant of createUser's order: the caches first, EdgeDB last.
createUserStepsCachesFirst == <<"d2.put", "kv.put", "edgedb.insert">>

\* The awaits of createUser, in the order it makes them.
createUserSteps == <<"edgedb.insert", "d2.put", "kv.put">>

\* createUser: INSERT User, then D2 put, then KV put, all under user:<email>.
createUser(name, email, failAt) ==
    LET id   == IdOf(nextId)
        key  == UserKey(email)
        user == UserObj(name, email)
        made == SubSeq(createUserSteps, 1, Done(failAt, 3))
    IN  /\ nextId <= MaxUsers
        /\ Called([op |-> "createUser", userId |-> id, name |-> name,
                    email |-> email, key |-> key])
        /\ edge'   = IF InSeq(made, "edgedb.insert") THEN Put(edge, id, user)
                     ELSE edge
        /\ nextId' = IF InSeq(made, "edgedb.insert") THEN nextId + 1 ELSE nextId
        /\ d2'     = IF InSeq(made, "d2.put") THEN Put(d2, key, D2Entry(user, id))
                     ELSE d2
        /\ kv'     = IF InSeq(made, "kv.put")
                     THEN Put(kv, key, KVEntry(JSONStringify(user), 3600, id))
                     ELSE kv
        /\ log'   = made
        /\ threw' = (failAt # 0)
        /\ ret'   = Undefined
        /\ clean' = (clean /\ failAt = 0)
        /\ UNCHANGED <<ctaVars, siteVars, acVars>>

\* updateUser: UPDATE User FILTER .id = userId (no row: nothing updated, no
\* error), D2 put under user:<userId>, KV delete and put under user:<email>.
updateUser(userId, name, email, failAt) ==
    LET key  == UserKey(email)
        user == UserObj(name, email)
        done == Done(failAt, 4)
    IN  /\ Called([op |-> "updateUser", userId |-> userId, name |-> name,
                    email |-> email, key |-> key])
        /\ edge' = IF done >= 1 /\ Has(edge, userId)
                   THEN Put(edge, userId, user) ELSE edge
        /\ d2'   = IF done >= 2
                   THEN Put(d2, UserKey(userId), D2Entry(user, userId)) ELSE d2
        /\ kv'   = CASE done >= 4 ->
                          Put(Del(kv, key), key,
                              KVEntry(JSONStringify(user), 3600, userId))
                     [] done = 3  -> Del(kv, key)
                     [] OTHER     -> kv
        /\ log'   = SubSeq(<<"edgedb.update", "d2.put", "kv.delete", "kv.put">>,
                           1, done)
        /\ threw' = (failAt # 0)
        /\ ret'   = Undefined
        /\ clean' = (clean /\ failAt = 0)
        /\ UNCHANGED <<nextId, ctaVars, siteVars, acVars>>

\* deleteUser: DELETE User FILTER .id = userId, then D2 delete and KV delete
\* under user:<email>.
deleteUser(userId, email, failAt) ==
    LET key  == UserKey(email)
        done == Done(failAt, 3)
    IN  /\ Called([op |-> "deleteUser", userId |-> userId, name |-> "",
                    email |-> email, key |-> key])
        /\ edge' = IF done >= 1 THEN Del(edge, userId) ELSE edge
        /\ d2'   = IF done >= 2 THEN Del(d2, key) ELSE d2
        /\ kv'   = IF done >= 3 THEN Del(kv, key) ELSE kv
        /\ log'   = SubSeq(<<"edgedb.delete", "d2.delete", "kv.delete">>, 1, done)
        /\ threw' = (failAt # 0)
        /\ ret'   = Undefined
        /\ clean' = (clean /\ failAt = 0)
        /\ UNCHANGED <<nextId, ctaVars, siteVars, acVars>>

\* KV put of a value that is not a string.  JSON.stringify(undefined) is
\* undefined, and what KV does with it is the platform's choice: the put
\* rejects with a TypeError ("throw"), or the value is coerced to the text
\* 'undefined' ("store").
UndefinedPuts == {"throw", "store"}

\* getUserData: KV get under user:<userId>; on a miss D2 get under the same
\* key and KV put of what D2 gave; on a hit JSON.parse of the KV text.
getUserData(userId, failAt, undefinedPut) ==
    LET key   == UserKey(userId)
        hit   == Has(kv, key)
        fromD2 == IF Has(d2, key) THEN d2[key].val ELSE Undefined
        by    == IF Has(d2, key) THEN d2[key].by ELSE ""
        text  == JSONStringify(fromD2)
        putOk == text.t = "string" \/ undefinedPut = "store"
        stored == IF text.t = "string" THEN text ELSE Str(<<"undefined">>)
    IN  /\ Called([op |-> "getUserData", userId |-> userId, name |-> "",
                    email |-> "", key |-> key])
        /\ IF failAt = 1
           THEN /\ log' = <<>> /\ threw' = TRUE /\ ret' = Undefined
                /\ UNCHANGED kv
           ELSE IF hit
           THEN /\ log' = <<"kv.get">>
                /\ threw' = ~JSONParses(kv[key].val)
                /\ ret' = IF JSONParses(kv[key].val)
                          THEN JSONParse(kv[key].val) ELSE Undefined
                /\ UNCHANGED kv
           ELSE IF failAt = 2
           THEN /\ log' = <<"kv.get">> /\ threw' = TRUE /\ ret' = Undefined
                /\ UNCHANGED kv
           ELSE IF failAt = 3 \/ ~putOk
           THEN /\ log' = <<"kv.get", "d2.get">> /\ threw' = TRUE
                /\ ret' = Undefined
                /\ UNCHANGED kv
           ELSE /\ log' = <<"kv.get", "d2.get", "kv.put">>
                /\ threw' = FALSE
                /\ ret' = fromD2
                /\ kv' = Put(kv, key, KVEntry(stored, 3600, by))
        /\ clean' = (clean /\ ~threw')
        /\ UNCHANGED <<edge, nextId, d2, ctaVars, siteVars, acVars>>

\* eventBus.on('UserUpdated', ...): KV delete and put under user:<userId>.
onUserUpdated(userId, updatedData, failAt) ==
    LET key  == UserKey(userId)
        done == Done(failAt, 2)
    IN  /\ Called([op |-> "UserUpdated", userId |-> userId,
                    name |-> updatedData.name, email |-> updatedData.email,
                    key |-> key])
        /\ kv' = CASE done = 2 ->
                        Put(Del(kv, key), key,
                            KVEntry(JSONStringify(updatedData), 3600, userId))
                   [] done = 1 -> Del(kv, key)
                   [] OTHER    -> kv
        /\ log'   = SubSeq(<<"kv.delete", "kv.put">>, 1, done)
        /\ threw' = (failAt # 0)
        /\ ret'   = Undefined
        /\ clean' = FALSE
        /\ UNCHANGED <<edge, nextId, d2, ctaVars, siteVars, acVars>>

\* The users SELECT User { name, email } finds, listed by id.
RECURSIVE SelectUsers(_)
SelectUsers(i) ==
    IF i > MaxUsers THEN <<>>
    ELSE (IF Has(edge, IdOf(i)) THEN <<[id |-> IdOf(i), user |-> edge[IdOf(i)]]>>
          ELSE <<>>) \o SelectUsers(i + 1)

\* The query has no ORDER BY: EdgeDB returns the rows in an order of its
\* choosing, any permutation of them.
Orders(n) == Permutations(1..n)

\* D2 after the first n users of `users` were put under user:<email>.
RECURSIVE PutUsers(_, _, _)
PutUsers(store, users, n) ==
    IF n = 0 THEN store
    ELSE Put(PutUsers(store, users, n - 1), UserKey(users[n].user.email),
             D2Entry(users[n].user, users[n].id))

\* syncEdgeDBToD2: select every user and put each in D2 under user:<email>;
\* a rejection ends the loop and is logged, not rethrown.
syncEdgeDBToD2(order, failAt) ==
    LET found == SelectUsers(1)
        users == [i \in 1..Len(found) |-> found[order[i]]]
        done  == Done(failAt, 1 + Len(users))
    IN  /\ failAt <= 1 + Len(users)
        /\ Called([op |-> "syncEdgeDBToD2", userId |-> "", name |-> "",
                    email |-> "", key |-> ""])
        /\ d2' = IF done >= 1 THEN PutUsers(d2, users, done - 1) ELSE d2
        /\ log' = SubSeq(<<"edgedb.select">> \o [i \in 1..Len(users) |-> "d2.put"],
                         1, done)
                  \o (IF failAt # 0 THEN <<"console.error">> ELSE <<>>)
        /\ threw' = FALSE
        /\ ret'   = Undefined
        /\ clean' = FALSE
        /\ UNCHANGED <<edge, nextId, kv, ctaVars, siteVars, acVars>>

\* The expirationTtl of a KV entry runs out and KV drops the entry.
expire(key) ==
    /\ Has(kv, key)
    /\ kv[key].ttl > 0
    /\ Called([op |-> "expire", userId |-> "", name |-> "", email |-> "",
                key |-> key])
    /\ kv' = Del(kv, key)
    /\ log' = <<>>
    /\ threw' = FALSE
    /\ ret' = Undefined
    /\ clean' = FALSE
    /\ UNCHANGED <<edge, nextId, d2, ctaVars, siteVars, acVars>>

\* The ids EdgeDB has handed out so far: the ids a caller can know.
IssuedIds == {IdOf(i) : i \in 1..(nextId - 1)}

\* Callers pass ids EdgeDB has handed out (getUserData is also asked by
\* email, the key createUser caches under) and, to deleteUser, the email
\* EdgeDB holds for the user; the UserUpdated event is emitted for a stored
\* user with the row EdgeDB holds for it.  A run takes MaxCalls calls.
UsersNext ==
    \/ /\ calls < MaxCalls
       /\ \E n \in Names, e \in Emails, f \in 0..3 : createUser(n, e, f)
    \/ /\ calls < MaxCalls
       /\ \E u \in IssuedIds, n \in Names, e \in Emails, f \in 0..4 :
             updateUser(u, n, e, f)
    \/ /\ calls < MaxCalls
       /\ \E u \in IssuedIds, f \in 0..3 :
             \E e \in (IF Has(edge, u) THEN {edge[u].email} ELSE Emails) :
                deleteUser(u, e, f)
    \/ /\ calls < MaxCalls
       /\ \E u \in IssuedIds \cup Emails, f \in 0..3, p \in UndefinedPuts :
             getUserData(u, f, p)
    \/ /\ calls < MaxCalls
       /\ \E u \in DOMAIN edge, f \in 0..2 : onUserUpdated(u, edge[u], f)
    \/ /\ calls < MaxCalls
       /\ \E f \in 0..(1 + MaxUsers), o \in Orders(Len(SelectUsers(1))) :
             syncEdgeDBToD2(o, f)
    \/ /\ calls < MaxCalls
       /\ \E k \in DOMAIN kv : expire(k)

----------------------------------------------------------------------------
(* part_002: autocomplete over EdgeDB, D2 and KV                           *)

AcNames  == {"amy", "ann"}
AcEmails == {"amy@x.io", "ann@x.io"}
Queries  == {"a", "an", "ann"}      \* what the input field sends

AcIdOf(i)   == "id" \o ToString(i)
IssuedAcIds == {AcIdOf(i) : i \in 1..(acNextId - 1)}

\* The names in the order a query lists them.
NameOrder == <<"amy", "ann">>

\* The query the conversion is taken to produce for an autocomplete input:
\* the rows whose name starts with the input.
Tails == {"", "n", "nn", "my"}
StartsWith(name, query) == \E tail \in Tails : query \o tail = name

\* executeSQLQueryOnD2: d2Object.query(sqlQuery) over the user rows the
\* 'autocomplete-data' object holds (the objects syncUserToCaches put).
executeSQLQueryOnD2(query, store) ==
    Arr(SelectSeq(NameOrder,
                  LAMBDA n : /\ StartsWith(n, query)
                             /\ \E k \in DOMAIN store :
                                   /\ store[k].val.t = "object"
                                   /\ store[k].val.name = n))

\* syncUserToCaches: D2 put and KV put (TTL 60) of {name, email} under the
\* name; `done` of its two awaits completed.
syncD2Key(name, id) == name
syncKVKey(name, id) == name

syncUserToCachesD2(store, name, email, id, done) ==
    IF done >= 1
    THEN Put(store, syncD2Key(name, id), D2Entry(UserObj(name, email), id))
    ELSE store

syncUserToCachesKV(store, name, email, id, done) ==
    IF done >= 2
    THEN Put(store, syncKVKey(name, id),
             KVEntry(JSONStringify(UserObj(name, email)), 60, id))
    ELSE store

\* addUser: INSERT User, then syncUserToCaches.
addUser(name, email, failAt) ==
    LET id   == AcIdOf(acNextId)
        done == Done(failAt, 3)
    IN  /\ acNextId <= MaxAcUsers
        /\ Called([op |-> "addUser", id |-> id, name |-> name,
                   email |-> email, key |-> name])
        /\ acEdge'   = IF done >= 1 THEN Put(acEdge, id, UserObj(name, email))
                       ELSE acEdge
        /\ acNextId' = IF done >= 1 THEN acNextId + 1 ELSE acNextId
        /\ acD2' = syncUserToCachesD2(acD2, name, email, id, done - 1)
        /\ acKV' = syncUserToCachesKV(acKV, name, email, id, done - 1)
        /\ log'   = SubSeq(<<"edgedb.insert", "d2.put", "kv.put">>, 1, done)
        /\ threw' = (failAt # 0)
        /\ ret'   = Undefined
        /\ clean' = (clean /\ failAt = 0)
        /\ synced' = IF failAt = 0
                     THEN [stage |-> "synced", id |-> id, name |-> name,
                           d2 |-> acD2, kv |-> acKV]
                     ELSE NoSync
        /\ UNCHANGED <<ctaVars, siteVars, userVars>>

\* removeUserFromCaches: D2 delete and KV delete under the id.
removeUserFromCaches(id, failAt) ==
    LET done == Done(failAt, 2)
    IN  /\ Called([op |-> "removeUserFromCaches", id |-> id, name |-> "",
                   email |-> "", key |-> id])
        /\ acD2' = IF done >= 1 THEN Del(acD2, id) ELSE acD2
        /\ acKV' = IF done >= 2 THEN Del(acKV, id) ELSE acKV
        /\ log'   = SubSeq(<<"d2.delete", "kv.delete">>, 1, done)
        /\ threw' = (failAt # 0)
        /\ ret'   = Undefined
        /\ clean' = FALSE
        /\ synced' = IF synced.stage = "synced" /\ failAt = 0
                     THEN [synced EXCEPT !.stage = "removed"]
                     ELSE NoSync
        /\ UNCHANGED <<acEdge, acNextId, ctaVars, siteVars, userVars>>

\* The awaits of handleAutocompleteRequest, by the access each makes.
AcAwaits == {"kv.get", "d2.get", "nlp", "d2.query", "d2.put", "kv.put"}

\* A variant of the request's accesses that goes to D2 whatever KV holds.
AutocompletePathAlwaysD2(hitKV, hitD2) ==
    IF hitD2 THEN <<"kv.get", "d2.get", "kv.put">>
    ELSE <<"kv.get", "d2.get", "nlp", "d2.query", "d2.put", "kv.put">>

\* The accesses a request makes, given what `if (kvResult)` and
\* `if (!results)` find.
AutocompletePath(hitKV, hitD2) ==
    IF hitKV THEN <<"kv.get">>
    ELSE IF hitD2 THEN <<"kv.get", "d2.get", "kv.put">>
    ELSE <<"kv.get", "d2.get", "nlp", "d2.query", "d2.put", "kv.put">>

\* handleAutocompleteRequest: KV get; on a miss D2 get; on a miss there too
\* the conversion, the query and a D2 put; then a KV put (TTL 60).
\* `failAt` names the await that rejects ("none": none).
handleAutocompleteRequest(query, failAt) ==
    LET hitKV  == Has(acKV, query) /\ Truthy(acKV[query].val)
        fromD2 == IF Has(acD2, query) THEN acD2[query].val ELSE Undefined
        hitD2  == Truthy(fromD2)
        path   == AutocompletePath(hitKV, hitD2)
        done   == IF InSeq(path, failAt) THEN IndexOf(path, failAt) - 1
                  ELSE Len(path)
        made   == SubSeq(path, 1, done)
        results == IF hitD2 THEN fromD2 ELSE executeSQLQueryOnD2(query, acD2)
        by     == IF hitD2 THEN acD2[query].by ELSE ""
    IN  /\ Called([op |-> "handleAutocompleteRequest", id |-> "", name |-> "",
                   email |-> "", key |-> query])
        /\ log' = made
        /\ threw' = (done < Len(path))
        /\ acD2' = IF InSeq(made, "d2.put")
                   THEN Put(acD2, query, D2Entry(results, by)) ELSE acD2
        /\ acKV' = IF InSeq(made, "kv.put")
                   THEN Put(acKV, query, KVEntry(JSONStringify(results), 60, by))
                   ELSE acKV
        /\ ret' = IF threw' THEN Undefined
                  ELSE IF hitKV THEN JSONParse(acKV[query].val)
                  ELSE results
        /\ clean' = (clean /\ ~threw')
        /\ synced' = NoSync
        /\ UNCHANGED <<acEdge, acNextId, ctaVars, siteVars, userVars>>

\* The expirationTtl of a KV_NAMESPACE entry runs out.
acExpire(key) ==
    /\ Has(acKV, key)
    /\ acKV[key].ttl > 0
    /\ Called([op |-> "expire", id |-> "", name |-> "", email |-> "",
               key |-> key])
    /\ acKV' = Del(acKV, key)
    /\ log' = <<>>
    /\ threw' = FALSE
    /\ ret' = Undefined
    /\ clean' = FALSE
    /\ synced' = NoSync
    /\ UNCHANGED <<acEdge, acNextId, acD2, ctaVars, siteVars, userVars>>

\* removeUserFromCaches is given what identifies a user: an id EdgeDB
\* handed out, or a name.
AutocompleteNext ==
    \/ \E n \in AcNames, e \in AcEmails, f \in 0..3 : addUser(n, e, f)
    \/ \E i \in IssuedAcIds \cup AcNames, f \in 0..2 : removeUserFromCaches(i, f)
    \/ \E q \in Queries, f \in AcAwaits \cup {"none"} :
          handleAutocompleteRequest(q, f)
    \/ \E k \in DOMAIN acKV : acExpire(k)

----------------------------------------------------------------------------
(* The site: pages, profile record, content documents, Storybook           *)

\* An operation of the site is taken: it becomes the last call and is
\* entered in the history.
Took(c) ==
    /\ Len(history) < MaxRenders
    /\ history' = Append(history, c.op)
    /\ call' = c

\* A JSX element, by its component and the text it is given.
El(tag, text) == [tag |-> tag, text |-> text]

\* A variant of the docs page that shows the chart demo for its controls.
PageWithCharts ==
    <<El("h1", "Docs"), El("Charts", "")>>

\* apps/docs/app/page.tsx, Page(): the children of the page's column, in
\* document order (the <div> around RainbowButton contributes its child).
Page ==
    <<El("h1", "Docs"),
      El("RainbowButton", "Get Unlimited Access"),
      El("Button", "Click me"),
      El("Label", "Email"),
      El("Input", ""),
      El("Button", "Submit"),
      El("ToastDemo", ""),
      El("NeonGradientCard", "Neon Gradient Card"),
      El("RetroGridDemo", "")>>

\* unnamed/part_001, Page(): another page headed 'Docs', with the charts.
ChartsPage ==
    <<El("h1", "Docs"), El("Charts", "")>>

\* A render of apps/docs/app/page.tsx.  Page takes no props, reads nothing
\* and returns its JSX; creating the elements runs none of the imported
\* components' code.
renderPage ==
    /\ Took([op |-> "Page"])
    /\ tree' = Page
    /\ threw' = FALSE
    /\ log' = <<>>
    /\ ret' = Undefined
    /\ UNCHANGED <<DATA, post, sbConfig, ctaVars, userVars, acVars, calls,
                   clean>>

\* A render of unnamed/part_001.
renderChartsPage ==
    /\ Took([op |-> "ChartsPage"])
    /\ tree' = ChartsPage
    /\ threw' = FALSE
    /\ log' = <<>>
    /\ ret' = Undefined
    /\ UNCHANGED <<DATA, post, sbConfig, ctaVars, userVars, acVars, calls,
                   clean>>

\* A month and a year, as DATA writes them: "February 2009".
MonthYear(month, year) == <<month, year>>

\* A variant of a work entry that loses its end date.
WorkEntryWithoutEnd(company, href, location, title, logoUrl, start, end, description) ==
    [company |-> company, href |-> href, badges |-> <<>>,
     location |-> location, title |-> title, logoUrl |-> logoUrl,
     start |-> start, description |-> description]

\* An entry of DATA.work.  Long texts are kept by their opening words.
WorkEntry(company, href, location, title, logoUrl, start, end, description) ==
    [company |-> company, href |-> href, badges |-> <<>>,
     location |-> location, title |-> title, logoUrl |-> logoUrl,
     start |-> start, end |-> end, description |-> description]

\* DATA.work, in the order of the source.
Work ==
    <<WorkEntry("Metabureau", "https://metabureau.com.au", "Remote",
                "Consultant and Developer", "/atomic.png",
                MonthYear("February", 2009), MonthYear("June", 2022),
                "Design, development and general consulting services."),
      WorkEntry("Miscellaneous Freelance", "https://shopify.com", "Remote",
                "Web Developr", "/shopify.svg",
                MonthYear("August", 2013), MonthYear("December", 2019),
                "Freelance web designer and developer"),
      WorkEntry("Integrativ", "https://shopify.com", "Remote",
                "Senior Consulatnt", "/shopify.svg",
                MonthYear("August", 2022), MonthYear("December", 2023),
                "General support and development tasks"),
      WorkEntry("REOP Ventures", "https://reop.com.au", "Santa Clara, CA",
                "Software Engineer", "/nvidia.png",
                MonthYear("January", 2020), MonthYear("April", 2020),
                "REOp (Real Estate: Offmarket & Premarket) was a startup"),
      WorkEntry("IE", "https://ie.com.au", "Melbourne, Australia",
                "Drupal Developer", "/splunk.svg",
                MonthYear("January", 2012), MonthYear("April", 2013),
                "Developer of the first iteration of Swinburne Online"),
      WorkEntry("MRG Metals", "https://li.me/", "Perth, Western Australia",
                "Software Engineer", "/lime.svg",
                MonthYear("January", 2018), MonthYear("April", 2018),
                "Liaison with graphic designer and client"),
      WorkEntry("Indoor Air Quality", "https://indoorairqualiry.com.au/",
                "Melbourne, Australia", "Proprietor", "/mitremedia.png",
                MonthYear("May", 2018), MonthYear("August", 2023),
                "Started an air quality testing and consulting small business."),
      WorkEntry("iSelect", "https://iselect.com.au/", "Melbourne, Australia",
                "Senior Web Producer", "/mitremedia.png",
                MonthYear("November", 2005), MonthYear("December", 2007),
                "Leading front end web development."),
      WorkEntry("Ericsson Australia", "https://ericcson.com.au/",
                "Melbourne, Australia", "UI Researcher abnd developer",
                "/mitremedia.png",
                MonthYear("October", 2005), MonthYear("August", 2006),
                "I pioneered the use of HTML on mobile devices."),
      WorkEntry("AOT Travel", "https://ericcson.com.au/",
                "Melbourne, Australia", "Web Designer and developer",
                "/mitremedia.png",
                MonthYear("September", 2005), MonthYear("August", 2003),
                "Design and development of multiple websites"),
      WorkEntry("AXA Australia", "https://axa.com.au/",
                "Melbourne, Australia", "Web Site Administrator",
                "/mitremedia.png",
                MonthYear("July", 1998), MonthYear("August", 1999),
                "Web site admin including daily publishing")>>

\* DATA.projects[*].technologies: the same list in both projects.
Technologies ==
    <<"Next.js", "Typescript", "PostgreSQL", "Prisma", "TailwindCSS",
      "Stripe", "Shadcn UI", "Magic UI">>

\* An entry of a project's links.
Link(type, href, icon) == [type |-> type, href |-> href, icon |-> icon]

\* DATA.projects
Projects ==
    <<[title |-> "Chat Collect", href |-> "https://chatcollect.com",
       dates |-> "Jan 2024 - Feb 2024", active |-> TRUE,
       description |-> "With the release of the OpenAI GPT Store",
       technologies |-> Technologies,
       links |-> <<Link("Website", "https://chatcollect.com", "Icons.globe")>>,
       image |-> "",
       video |-> "https://pub-83c5db439b40468498f97946200806f7.r2.dev/chat-collect.mp4"],
      [title |-> "Magic UI", href |-> "https://magicui.design",
       dates |-> "June 2023 - Present", active |-> TRUE,
       description |-> "Designed, developed and sold animated UI components for developers.",
       technologies |-> Technologies,
       links |-> <<Link("Website", "https://magicui.design", "Icons.globe"),
                   Link("Source", "https://github.com/magicuidesign/magicui",
                        "Icons.github")>>,
       image |-> "",
       video |-> "https://cdn.magicui.design/bento-grid.mp4"]>>

\* DATA.hackathons
Hackathons ==
    <<[title |-> "Hack Western 5", dates |-> "November 23rd - 25th, 2018",
       location |-> "London, Ontario",
       description |-> "Developed a mobile application which delivered bedtime stories",
       image |-> "https://pub-83c5db439b40468498f97946200806f7.r2.dev/hackline/hack-western.png",
       mlh |-> "https://s3.amazonaws.com/logged-assets/trust-badge/2019/mlh-trust-badge-2019-white.svg",
       links |-> <<>>],
      [title |-> "Hack The North", dates |-> "September 14th - 16th, 2018",
       location |-> "Waterloo, Ontario",
       description |-> "Developed a mobile application which delivers university campus wide events",
       image |-> "https://pub-83c5db439b40468498f97946200806f7.r2.dev/hackline/hack-the-north.png",
       mlh |-> "https://s3.amazonaws.com/logged-assets/trust-badge/2019/mlh-trust-badge-2019-white.svg",
       links |-> <<>>]>>

\* DATA.skills
Skills ==
    <<"React", "Next.js", "Typescript", "Node.js", "Hono.js", "EdgeDB",
      "Postgres", "Cloudflare Pages and Workers",
      "Cloudflare Developer Platform", "Magic UI", "Tailwind CSS",
      "Shadcn/ui", "Astro.js", "MapBox", "Storybook", "Design systems",
      "DNS", "Information architecture">>

\* An entry of DATA.contact.social.
Social(name, url, icon, navbar) ==
    [name |-> name, url |-> url, icon |-> icon, navbar |-> navbar]

\* DATA.contact
Contact ==
    [email |-> "stemil23@gmail.com",
     tel |-> "+610490100028",
     social |->
        [GitHub |-> Social("GitHub", "https://github.com/stemil23",
                           "Icons.github", TRUE),
         LinkedIn |-> Social("LinkedIn",
                             "https://www.linkedin.com/in/stewartmilne/",
                             "Icons.linkedin", TRUE),
         email |-> Social("Send Email", "#", "Icons.email", FALSE)]]

\* export const DATA = { ... } as const: the record the module exports.
\* `as const` is a compile-time annotation; at run time the record is an
\* ordinary object.
ExportedDATA ==
    [name |-> "Stew \"Stin\" Milne",
     initials |-> "SM",
     url |-> "https://stewmilne.id.au",
     location |-> "Melbourne Australia",
     locationLink |-> "https://www.google.com/maps/place/melbourne",
     description |-> "Consultant, UI Engineer and full-stack developer",
     summary |-> " Hello I am very clever",
     avatarUrl |-> "/me.png",
     skills |-> Skills,
     navbar |-> <<[href |-> "/", icon |-> "HomeIcon", label |-> "Home"],
                  [href |-> "/blog", icon |-> "NotebookIcon", label |-> "Blog"]>>,
     contact |-> Contact,
     work |-> Work,
     education |-> <<[school |-> "Buildspace", href |-> "https://buildspace.so",
                      degree |-> "s3, s4, sf1, s5",
                      logoUrl |-> "/buildspace.jpg",
                      start |-> "2023", end |-> "2024"]>>,
     projects |-> Projects,
     hackathons |-> Hackathons]

\* A variant of the profile page that reverses DATA.work in place
\* (Array.prototype.reverse) to show the entries newest last.
renderProfileReversingWork ==
    /\ Took([op |-> "Profile"])
    /\ DATA' = [DATA EXCEPT
                  !.work = [i \in 1..Len(@) |-> @[Len(@) + 1 - i]]]
    /\ tree' = <<El("h1", DATA.name)>>
               \o [i \in 1..Len(DATA.work) |->
                     El("work", DATA'.work[i].company)]
               \o [i \in 1..Len(DATA.projects) |->
                     El("project", DATA.projects[i].title)]
    /\ threw' = FALSE
    /\ log' = <<>>
    /\ ret' = Undefined
    /\ UNCHANGED <<post, sbConfig, ctaVars, userVars, acVars, calls, clean>>

\* A page component that consumes DATA: it reads the record at render time
\* and shows the name, the work history and the projects.
renderProfile ==
    /\ Took([op |-> "Profile"])
    /\ tree' = <<El("h1", DATA.name)>>
               \o [i \in 1..Len(DATA.work) |->
                     El("work", DATA.work[i].company)]
               \o [i \in 1..Len(DATA.projects) |->
                     El("project", DATA.projects[i].title)]
    /\ threw' = FALSE
    /\ log' = <<>>
    /\ ret' = Undefined
    /\ UNCHANGED <<DATA, post, sbConfig, ctaVars, userVars, acVars, calls,
                   clean>>

\* The lines of a document: a '---' fence, a `key: value` line of the
\* front matter (the value a quoted string, or a bare true/false), a line
\* of text, or a blank line.
Fence == [t |-> "fence"]
Blank == [t |-> "blank"]
Field(key, kind, value) == [t |-> "field", key |-> key, kind |-> kind,
                            value |-> value]
Text(text) == [t |-> "text", text |-> text]

\* The content documents, by their path under the repository (the
\* typographic apostrophe of one file name is written ').
DesignSystemsMdx == "apps/portfolio/content/Design-Systems-Turborepo-and-Git-Submodules.mdx"
FinalMd     == "apps/portfolio/content/Final - Exploring Predictive Maintenance and AI in Construction and Engineering with EdgeDB.md"
UnlockingMd == "apps/portfolio/content/Unlocking the Power of EdgeDB's Native AI - Transforming Legal, Construction, and Architecture Industries.md"
Documents ==
    {DesignSystemsMdx, FinalMd, UnlockingMd, "unnamed/part_000",
     "unnamed/part_002", "unnamed/part_003", "unnamed/part_004"}

\* The opening lines of each document, up to its first lines of text.
Lines(path) ==
    CASE path = DesignSystemsMdx ->
            <<Fence,
              Field("title", "string", "Design Systems, Turborepo, and Git Submodules"),
              Field("publishedAt", "string", "2024-06-18"),
              Field("summary", "string", "Managing a design system"),
              Field("published", "boolean", "true"),
              Fence, Blank,
              Text("**Design Systems, Turborepo, and Git Submodules**")>>
      [] path = FinalMd ->
            <<Blank,
              Text("**Exploring Predictive Maintenance and AI**"),
              Blank,
              Text("**Introduction**"),
              Text("In the construction and engineering industries")>>
      [] path = UnlockingMd ->
            <<Text("**Unlocking the Power of EdgeDB's Native AI**"),
              Blank,
              Text("In today's fast-paced world")>>
      [] path = "unnamed/part_000" ->
            <<Fence,
              Field("title", "string", "Building a Natural Language Query Interface"),
              Field("publishedAt", "string", "2024-06-18"),
              Field("summary", "string", "What if you could simply ask your database"),
              Field("published", "boolean", "true"),
              Fence, Blank,
              Text("# Building a Natural Language Query Interface")>>
      [] path = "unnamed/part_002" ->
            <<Text("Building a fast, responsive autocomplete feature"),
              Blank,
              Text("### **1. Architecture Overview**")>>
      [] path = "unnamed/part_003" ->
            <<Fence,
              Field("title", "string", "Choosing the Right Strategy for Managing a Design System"),
              Field("publishedAt", "string", "2024-06-18"),
              Field("summary", "string", "Managing a design system"),
              Field("published", "boolean", "true"),
              Fence, Blank,
              Text("# Choosing the Right Strategy")>>
      [] path = "unnamed/part_004" ->
            <<Fence,
              Field("title", "string", "Safely Fork a Git Remote Instead of Clone"),
              Field("publishedAt", "string", "2024-06-18"),
              Field("summary", "string", "A guide to safely fork a Git remote"),
              Fence, Blank,
              Text("**Steps for Setting Up Your Fork:**")>>

\* The line that closes a front-matter block opened on line 1 (0: none).
ClosingFence(lines) ==
    IF \E i \in 2..Len(lines) : lines[i] = Fence
    THEN CHOOSE i \in 2..Len(lines) :
            /\ lines[i] = Fence
            /\ \A j \in 2..(i - 1) : lines[j] # Fence
    ELSE 0

\* Reading a document splits it into the fields of its front-matter block,
\* when it starts with one, and the content after it.
FrontMatter(lines) ==
    LET close == IF Len(lines) > 0 /\ lines[1] = Fence
                 THEN ClosingFence(lines) ELSE 0
        keys  == {lines[i].key : i \in {j \in 2..(close - 1) :
                                           lines[j].t = "field"}}
    IN  [matter  |-> close > 0,
         data    |-> [k \in keys |->
                        LET i == CHOOSE j \in 2..(close - 1) :
                                    lines[j].t = "field" /\ lines[j].key = k
                        IN  [kind |-> lines[i].kind, value |-> lines[i].value]],
         content |-> SelectSeq(SubSeq(lines, close + 1, Len(lines)),
                               LAMBDA l : l.t = "text")]

\* The content pipeline reads a document.
readDocument(path) ==
    /\ Took([op |-> "readDocument", path |-> path])
    /\ post' = FrontMatter(Lines(path))
    /\ threw' = FALSE
    /\ log' = <<>>
    /\ ret' = Undefined
    /\ UNCHANGED <<DATA, sbConfig, tree, ctaVars, userVars, acVars, calls,
                   clean>>

\* config.stories
Stories ==
    <<"../stories/**/*.mdx",
      "../stories/**/*.stories.@(js|jsx|mjs|ts|tsx)",
      "../../packages/ui/src/components/**/*.stories.@(js|jsx|mjs|ts|tsx)">>

\* A variant of the addon list without the onboarding addon.
AddonsWithoutOnboarding ==
    <<"@storybook/addon-links", "@storybook/addon-essentials",
      "@chromatic-com/storybook", "@storybook/addon-interactions">>

\* The packages config.addons names, in its order.
Addons ==
    <<"@storybook/addon-onboarding", "@storybook/addon-links",
      "@storybook/addon-essentials", "@chromatic-com/storybook",
      "@storybook/addon-interactions">>

\* Where the workspace's packages may be installed, and which of the
\* addon packages are: all of them, or all but one.
Roots == {"/repo/node_modules", "/repo/apps/node_modules"}
AddonSet == {Addons[i] : i \in DOMAIN Addons}
Installs == {AddonSet} \cup {AddonSet \ {a} : a \in AddonSet}

\* getAbsolutePath(value): dirname(require.resolve(join(value,
\* "package.json"))), the directory the package is installed in.
getAbsolutePath(root, value) == root \o "/" \o value

NoConfig == [stories |-> <<>>, addons |-> <<>>]
NoPost   == [matter |-> FALSE, data |-> Empty, content |-> <<>>]

\* A load of .storybook/main.js: the module evaluates the config literal,
\* resolving each addon in turn; require.resolve throws for a package that
\* is not installed, and the module then exports nothing.
loadMain(root, installed) ==
    LET missing  == {i \in DOMAIN Addons : Addons[i] \notin installed}
        resolved == IF missing = {} THEN Len(Addons)
                    ELSE (CHOOSE i \in missing : \A j \in missing : i <= j) - 1
    IN  /\ Took([op |-> "main.js", root |-> root])
        /\ threw' = (missing # {})
        /\ log' = [i \in 1..resolved |-> "require.resolve"]
        /\ sbConfig' = IF missing = {}
                       THEN [stories |-> Stories,
                             addons |-> [i \in DOMAIN Addons |->
                                           getAbsolutePath(root, Addons[i])],
                             framework |-> [name |-> "@storybook/nextjs"],
                             docs |-> [autodocs |-> "tag"]]
                       ELSE NoConfig
        /\ ret' = Undefined
        /\ UNCHANGED <<DATA, post, tree, ctaVars, userVars, acVars, calls,
                       clean>>

SiteNext ==
    \/ renderPage
    \/ renderChartsPage
    \/ renderProfile
    \/ \E d \in Documents : readDocument(d)
    \/ \E r \in Roots, s \in Installs : loadMain(r, s)

----------------------------------------------------------------------------
(* Specifications *)

Init ==
    /\ ButtonClick = <<>>
    /\ selected = ""
    /\ page = <<>>
    /\ edge = Empty
    /\ nextId = 1
    /\ d2 = Empty
    /\ kv = Empty
    /\ acEdge = Empty
    /\ acNextId = 1
    /\ acD2 = Empty
    /\ acKV = Empty
    /\ synced = NoSync
    /\ DATA = Undefined
    /\ post = NoPost
    /\ sbConfig = NoConfig
    /\ tree = <<>>
    /\ history = <<>>
    /\ call = NoCall
    /\ log = <<>>
    /\ threw = FALSE
    /\ ret = Undefined
    /\ calls = 0
    /\ clean = TRUE

SpecCTA   == Init /\ [][CTANext]_vars
SpecUsers == Init /\ [][UsersNext]_vars
SpecAutocomplete == Init /\ [][AutocompleteNext]_vars

\* The site starts with the module that exports DATA evaluated; the
\* services above run without it.
SiteInit ==
    /\ DATA = ExportedDATA
    /\ post = NoPost
    /\ sbConfig = NoConfig
    /\ tree = <<>>
    /\ history = <<>>
    /\ ButtonClick = <<>> /\ selected = "" /\ page = <<>>
    /\ edge = Empty /\ nextId = 1 /\ d2 = Empty /\ kv = Empty
    /\ acEdge = Empty /\ acNextId = 1 /\ acD2 = Empty /\ acKV = Empty
    /\ synced = NoSync
    /\ call = NoCall /\ log = <<>> /\ threw = FALSE /\ ret = Undefined
    /\ calls = 0 /\ clean = TRUE

SpecSite  == SiteInit /\ [][SiteNext]_vars

\* Both store services together with the platform's expiry of KV entries.
\* Here the expiry is what it is on the platform, a step of KV itself that
\* is no call of a service and is not counted as one: KV drops an entry
\* whose expirationTtl has run out, whatever the services do meanwhile.
\* An entry without a TTL is never dropped.
ttlExpires(key) ==
    /\ Has(kv, key)
    /\ kv[key].ttl > 0
    /\ kv' = Del(kv, key)
    /\ clean' = FALSE
    /\ UNCHANGED <<edge, nextId, d2, ctaVars, siteVars, acVars, call, log,
                   threw, ret, calls>>

acTtlExpires(key) ==
    /\ Has(acKV, key)
    /\ acKV[key].ttl > 0
    /\ acKV' = Del(acKV, key)
    /\ clean' = FALSE
    /\ UNCHANGED <<acEdge, acNextId, acD2, synced, ctaVars, siteVars,
                   userVars, call, log, threw, ret, calls>>

\* The keys the services write KV entries under.
KVKeys   == {UserKey(x) : x \in UserIds \cup Emails}
AcKVKeys == AcNames \cup Queries

ExpiryNext ==
    \/ calls < MaxExpiryCalls /\ UsersNext
    \/ calls < MaxExpiryCalls /\ AutocompleteNext
    \/ \E k \in DOMAIN kv : ttlExpires(k)
    \/ \E k \in DOMAIN acKV : acTtlExpires(k)

\* An expirationTtl is a time span: it does run out.
SpecExpiry ==
    /\ Init
    /\ [][ExpiryNext]_vars
    /\ \A k \in KVKeys : WF_vars(ttlExpires(k))
    /\ \A k \in AcKVKeys : WF_vars(acTtlExpires(k))

----------------------------------------------------------------------------
(* Properties                                                              *)

\* The accesses `made` are the first of the accesses `path`, in order.
IsPrefix(made, path) ==
    /\ Len(made) <= Len(path)
    /\ \A i \in 1..Len(made) : made[i] = path[i]

\* The ButtonClick records with version v, counted over the table.
NumClicks(v) == Len(SelectSeq(ButtonClick, LAMBDA c : c.version = v))

BuyNow(v) == "Buy Now (Version " \o v \o ")"

\* C1: the selection query resolves to 'A' exactly when more ButtonClick
\* records carry version 'A' than version 'B', and to 'B' in every other
\* case (a tie, an empty table, B ahead).
C1_SelectsAOnlyWhenStrictlyAhead ==
    (call.op = "render" /\ log = <<"edgedb.select">>) =>
        /\ selected \in {"A", "B"}
        /\ (selected = "A") <=> (NumClicks("A") > NumClicks("B"))

\* A render on a tie of one click or more, answered with 'B'.
C1_Witness ==
    /\ call.op = "render"
    /\ log = <<"edgedb.select">>
    /\ NumClicks("A") = NumClicks("B")
    /\ NumClicks("A") >= 1
    /\ selected = "B"

\* C2: when the selection query resolved to v, the rendered tree is exactly
\* one button, labelled 'Buy Now (Version v)', and holds no button of the
\* other version.
C2_RendersOnlyTheSelectedButton ==
    (call.op = "render" /\ selected \in {"A", "B"}) =>
        /\ Len(page) = 1
        /\ page[1].tag = "button"
        /\ page[1].text = BuyNow(selected)
        /\ \A i \in DOMAIN page, v \in {"A", "B"} \ {selected} :
              page[i].text # BuyNow(v)

\* A render that put the version-A button on the page.
C2_Witness ==
    /\ call.op = "render"
    /\ selected = "A"
    /\ page = <<CTAButton("A")>>

\* C3: after createUser, updateUser and deleteUser calls that each ran to
\* completion, getUserData for a user's id returns the row EdgeDB holds for
\* the user, and nothing for a user EdgeDB no longer holds.
C3_GetUserDataReturnsLatestWrite ==
    (call.op = "getUserData" /\ clean /\ call.userId \in IssuedIds) =>
        ret = (IF Has(edge, call.userId) THEN edge[call.userId] ELSE Undefined)

\* C4: once deleteUser for a user has completed, no entry of D2 or KV that
\* a createUser or updateUser call wrote for that user is left.
C4_DeleteLeavesNoEntry ==
    (call.op = "deleteUser" /\ clean) =>
        /\ \A k \in DOMAIN d2 : d2[k].by # call.userId
        /\ \A k \in DOMAIN kv : kv[k].by # call.userId

\* C5: once updateUser for a stored user has completed, every KV entry
\* cached for that user carries the updated name and email.
C5_UpdateLeavesNoStaleCache ==
    (call.op = "updateUser" /\ clean /\ Has(edge, call.userId)) =>
        \A k \in DOMAIN kv :
            kv[k].by = call.userId =>
                /\ JSONParses(kv[k].val)
                /\ JSONParse(kv[k].val) = UserObj(call.name, call.email)

\* KV holds `value` under `key`: the text there parses to it.
KVHolds(store, key, value) ==
    /\ Has(store, key)
    /\ JSONParses(store[key].val)
    /\ JSONParse(store[key].val) = value

\* C8: a getUserData call none of whose awaits is made to reject returns
\* the KV value without a D2 read when KV holds the key; when KV does not,
\* it returns what D2 holds for the key and KV then holds that value under
\* the key.
C8_GetUserDataReadsThrough ==
    [][\A u \in UserIds \cup Emails, p \in UndefinedPuts :
          getUserData(u, 0, p) =>
              LET key == UserKey(u)
              IN  IF Has(kv, key)
                  THEN /\ ~threw'
                       /\ ret' = JSONParse(kv[key].val)
                       /\ ~InSeq(log', "d2.get")
                  ELSE /\ ~threw'
                       /\ ret' = (IF Has(d2, key) THEN d2[key].val ELSE Undefined)
                       /\ KVHolds(kv', key, ret')]_vars

\* The part of C8 the code keeps: the same, for calls that return and keys
\* D2 holds.
GetUserDataReadsThroughWhenD2Holds ==
    [][\A u \in UserIds \cup Emails, p \in UndefinedPuts :
          (getUserData(u, 0, p) /\ ~threw') =>
              LET key == UserKey(u)
              IN  IF Has(kv, key)
                  THEN /\ ret' = JSONParse(kv[key].val)
                       /\ ~InSeq(log', "d2.get")
                       /\ kv' = kv
                  ELSE Has(d2, key) =>
                       /\ ret' = d2[key].val
                       /\ KVHolds(kv', key, ret')]_vars

\* C10: createUser awaits the EdgeDB insert, then the D2 put, then the KV
\* put; D2 is written only once EdgeDB holds the user and KV only once D2
\* holds it; when the insert rejects, D2 and KV are as they were.
C10_CreateWritesEdgeThenD2ThenKV ==
    [][\A n \in Names, e \in Emails, f \in 0..3 :
          createUser(n, e, f) =>
              /\ IsPrefix(log', <<"edgedb.insert", "d2.put", "kv.put">>)
              /\ InSeq(log', "d2.put") =>
                    /\ Has(edge', IdOf(nextId))
                    /\ edge'[IdOf(nextId)] = UserObj(n, e)
              /\ InSeq(log', "kv.put") =>
                    /\ Has(d2', UserKey(e))
                    /\ d2'[UserKey(e)].val = UserObj(n, e)
              /\ ~InSeq(log', "edgedb.insert") => (d2' = d2 /\ kv' = kv)
              /\ (f = 1) => (edge' = edge /\ d2' = d2 /\ kv' = kv)
              /\ (f = 0) => KVHolds(kv', UserKey(e), UserObj(n, e))]_vars

\* A createUser whose insert rejected while D2 and KV held entries.
C10_Witness ==
    /\ call.op = "createUser"
    /\ threw
    /\ log = <<>>
    /\ DOMAIN d2 # {}
    /\ DOMAIN kv # {}

\* What a request returned names the user: as a row of the results, or as
\* the object itself.
Includes(value, name) ==
    \/ value.t = "array" /\ InSeq(value.items, name)
    \/ value.t = "object" /\ value.name = name

\* C6: after addUser calls that ran to completion, an autocomplete request
\* returns every added user whose name starts with the query.
C6_AutocompleteSeesAddedUsers ==
    (call.op = "handleAutocompleteRequest" /\ clean) =>
        \A id \in DOMAIN acEdge :
            StartsWith(acEdge[id].name, call.key) =>
                Includes(ret, acEdge[id].name)

\* C7: removeUserFromCaches right after the syncUserToCaches of the same
\* user, given the user's id or name, leaves D2 and KV as they were before
\* the sync.
C7_SyncThenRemoveRestores ==
    (/\ call.op = "removeUserFromCaches"
     /\ synced.stage = "removed"
     /\ call.id \in {synced.id, synced.name}) =>
        /\ acD2 = synced.d2
        /\ acKV = synced.kv

\* C9: a request answers from KV alone when KV holds the query; otherwise
\* it reads D2, runs the conversion and the query and puts the results in
\* D2 only when D2 misses too, and in both miss cases puts the results in
\* KV under the query and returns them.  A request cut short by a rejected
\* await has made a prefix of those accesses.
C9_AutocompleteReadPath ==
    [][\A q \in Queries, f \in AcAwaits \cup {"none"} :
          handleAutocompleteRequest(q, f) =>
              LET path == IF Has(acKV, q) THEN <<"kv.get">>
                          ELSE IF Has(acD2, q)
                          THEN <<"kv.get", "d2.get", "kv.put">>
                          ELSE <<"kv.get", "d2.get", "nlp", "d2.query",
                                 "d2.put", "kv.put">>
              IN  /\ IsPrefix(log', path)
                  /\ threw' <=> InSeq(path, f)
                  /\ ~InSeq(log', "d2.put") => acD2' = acD2
                  /\ ~InSeq(log', "kv.put") => acKV' = acKV
                  /\ ~threw' =>
                        /\ log' = path
                        /\ Has(acKV, q) => ret' = JSONParse(acKV[q].val)
                        /\ (~Has(acKV, q) /\ Has(acD2, q)) =>
                              ret' = acD2[q].val
                        /\ (~Has(acKV, q) /\ ~Has(acD2, q)) =>
                              /\ Has(acD2', q)
                              /\ acD2'[q].val = ret'
                        /\ ~Has(acKV, q) => KVHolds(acKV', q, ret')]_vars

\* A request that missed KV, found the query in D2 and cached it in KV.
C9_Witness ==
    /\ call.op = "handleAutocompleteRequest"
    /\ ~threw
    /\ log = <<"kv.get", "d2.get", "kv.put">>
    /\ KVHolds(acKV, call.key, ret)

----------------------------------------------------------------------------
(* Properties of syncEdgeDBToD2                                            *)

\* The last call was a syncEdgeDBToD2 that logged no error.  The sync does
\* not write EdgeDB, so `edge` is the table its query read.
SyncedWithoutError ==
    /\ call.op = "syncEdgeDBToD2"
    /\ ~InSeq(log, "console.error")

\* C11: after syncEdgeDBToD2 returns without having logged an
\* error, D2 holds under user:<email> the name and email of every user
\* stored in EdgeDB at the time of the query.
C11_SyncCopiesEveryUser ==
    SyncedWithoutError =>
        \A u \in DOMAIN edge :
            /\ Has(d2, UserKey(edge[u].email))
            /\ d2[UserKey(edge[u].email)].val = edge[u]

\* What the sync does establish: D2 holds under user:<email>, for every
\* email a user stored in EdgeDB has, the name and email of one user with
\* that email (the last the query returned), and so of every user whose
\* email no other user has.
SyncCopiesOneUserPerEmail ==
    SyncedWithoutError =>
        \A u \in DOMAIN edge :
            LET key == UserKey(edge[u].email)
            IN  /\ Has(d2, key)
                /\ \E w \in DOMAIN edge :
                      /\ edge[w].email = edge[u].email
                      /\ d2[key].val = edge[w]
                      /\ d2[key].by = w
                /\ (\A w \in DOMAIN edge \ {u} : edge[w].email # edge[u].email)
                      => d2[key].val = edge[u]

----------------------------------------------------------------------------
(* Properties of the KV entries' TTLs                                      *)

\* Every entry KV holds was put with an expirationTtl.
EveryKVEntryHasTtl ==
    /\ \A k \in DOMAIN kv : kv[k].ttl > 0
    /\ \A k \in DOMAIN acKV : acKV[k].ttl > 0

\* C12: every write to KV made by createUser, updateUser, getUserData, the
\* UserUpdated handler, handleAutocompleteRequest and syncUserToCaches
\* carries an expiration TTL, so every KV entry is eventually removed (the
\* services make finitely many writes, so each entry is at some point not
\* written again).
C12_KVEntriesCarryTtlAndExpire ==
    /\ []EveryKVEntryHasTtl
    /\ \A k \in KVKeys : Has(kv, k) ~> ~Has(kv, k)
    /\ \A k \in AcKVKeys : Has(acKV, k) ~> ~Has(acKV, k)

\* The last call put a KV entry, and KV has since dropped it.
C12_Witness ==
    /\ call.op \in {"createUser", "updateUser", "getUserData", "UserUpdated",
                    "handleAutocompleteRequest", "addUser"}
    /\ log # <<>>
    /\ log[Len(log)] = "kv.put"
    /\ ~Has(kv, call.key)
    /\ ~Has(acKV, call.key)

----------------------------------------------------------------------------
(* Properties of the wrapper's error boundary                              *)

\* C13: when the selection query fails, DynamicCTAWrapper shows the
\* fallback 'Error loading CTA: <error message>' in place of a CTA button,
\* and the error does not propagate out of the wrapper.
C13_QueryFailureShowsFallback ==
    (call.op = "render" /\ call.error # "") =>
        /\ Len(page) = 1
        /\ page[1].tag = "div"
        /\ page[1].text = "Error loading CTA: " \o call.error
        /\ \A i \in DOMAIN page : page[i].tag # "button"
        /\ ~threw

\* The query failed on a request that came after a page with a CTA button
\* had been served and clicked.
C13_Witness ==
    /\ call.op = "render"
    /\ call.error = "timeout"
    /\ log = <<>>
    /\ Len(ButtonClick) > 0
    /\ page = <<[tag |-> "div", aria |-> "", track |-> "",
                 text |-> "Error loading CTA: timeout"]>>

----------------------------------------------------------------------------
(* Properties of the content documents                                     *)

\* C14: every content document of the repository starts with a
\* front-matter block that contains all four fields title, publishedAt,
\* summary and published, with published a boolean.
C14_EveryDocumentHasFullFrontMatter ==
    call.op = "readDocument" =>
        /\ post.matter
        /\ {"title", "publishedAt", "summary", "published"}
              \subseteq DOMAIN post.data
        /\ post.data["published"].kind = "boolean"

\* C15: every post has a title and a body: each content document has a
\* title field in its front-matter and non-empty content after it.
C15_EveryPostHasTitleAndBody ==
    call.op = "readDocument" =>
        /\ "title" \in DOMAIN post.data
        /\ post.content # <<>>

\* What the documents do have: content, and, in those that start with a
\* front-matter block, the fields title, publishedAt and summary.
DocumentsWithFrontMatterHaveTitle ==
    call.op = "readDocument" =>
        /\ post.content # <<>>
        /\ post.matter =>
              {"title", "publishedAt", "summary"} \subseteq DOMAIN post.data
        /\ "published" \in DOMAIN post.data =>
              post.data["published"].kind = "boolean"

----------------------------------------------------------------------------
(* Properties of the profile record                                        *)

\* A JavaScript array, as opposed to an object or a scalar.
IsList(v) == DOMAIN v = 1..Len(v)

\* C16: the profile record DATA has a name, contact fields and ordered
\* lists skills, work, projects and hackathons; every entry of DATA.work
\* has company, title, start, end and description, and every entry of
\* DATA.projects has title, description, technologies and links.
C16_DATAHasTheProfileFields ==
    /\ {"name", "contact", "skills", "work", "projects", "hackathons"}
          \subseteq DOMAIN DATA
    /\ {"email", "tel", "social"} \subseteq DOMAIN DATA.contact
    /\ IsList(DATA.skills) /\ IsList(DATA.work)
    /\ IsList(DATA.projects) /\ IsList(DATA.hackathons)
    /\ \A i \in DOMAIN DATA.work :
          {"company", "title", "start", "end", "description"}
             \subseteq DOMAIN DATA.work[i]
    /\ \A i \in DOMAIN DATA.projects :
          /\ {"title", "description", "technologies", "links"}
                \subseteq DOMAIN DATA.projects[i]
          /\ IsList(DATA.projects[i].technologies)
          /\ IsList(DATA.projects[i].links)

\* A page was rendered from the record: the name, the eleven work entries
\* and the two projects.
C16_Witness ==
    /\ call.op = "Profile"
    /\ Len(tree) = 14
    /\ tree[1].text = DATA.name
    /\ tree[12].text = "AXA Australia"
    /\ tree[14].text = "Magic UI"

\* C18: no operation of the repository changes the profile record DATA:
\* after any sequence of page renders every field of DATA has its initial
\* value.
C18_NoOperationChangesDATA ==
    \A f \in DOMAIN ExportedDATA \cup DOMAIN DATA :
        /\ f \in DOMAIN DATA
        /\ f \in DOMAIN ExportedDATA
        /\ DATA[f] = ExportedDATA[f]

\* The record after three renders of pages, the page that reads it last.
C18_Witness ==
    /\ history = <<"Page", "Profile", "Profile">>
    /\ call.op = "Profile"
    /\ DATA.work[1].company = "Metabureau"

MonthNames ==
    <<"January", "February", "March", "April", "May", "June", "July",
      "August", "September", "October", "November", "December">>
MonthNumber(name) == CHOOSE i \in 1..12 : MonthNames[i] = name

\* The month `a` is not later than the month `b`.
NotLater(a, b) ==
    \/ a[2] < b[2]
    \/ a[2] = b[2] /\ MonthNumber(a[1]) <= MonthNumber(b[1])

\* C20: every work-history entry of DATA.work has a well-formed date range:
\* its start month is not later than its end month.
C20_WorkStartsNotLaterThanItEnds ==
    call.op = "Profile" =>
        \A i \in DOMAIN DATA.work :
            NotLater(DATA.work[i].start, DATA.work[i].end)

----------------------------------------------------------------------------
(* Properties of the Storybook configuration and the docs page             *)

\* C17: the Storybook configuration is a fixed declaration: on every load
\* its stories list is exactly the three story globs and its addons list
\* is exactly the five addons (onboarding, links, essentials, chromatic,
\* interactions) in that order, independent of any run-time state.
C17_StorybookConfigIsFixed ==
    (call.op = "main.js" /\ ~threw) =>
        /\ sbConfig.stories =
              <<"../stories/**/*.mdx",
                "../stories/**/*.stories.@(js|jsx|mjs|ts|tsx)",
                "../../packages/ui/src/components/**/*.stories.@(js|jsx|mjs|ts|tsx)">>
        /\ sbConfig.addons =
              <<call.root \o "/@storybook/addon-onboarding",
                call.root \o "/@storybook/addon-links",
                call.root \o "/@storybook/addon-essentials",
                call.root \o "/@chromatic-com/storybook",
                call.root \o "/@storybook/addon-interactions">>

\* The configuration was loaded a second time, after a page render, from
\* another place of installation.
C17_Witness ==
    /\ history = <<"main.js", "Profile", "main.js">>
    /\ call.op = "main.js"
    /\ call.root = "/repo/apps/node_modules"
    /\ ~threw
    /\ Len(sbConfig.addons) = 5

\* C19: the docs page takes no input and keeps no state: every render
\* returns the same element tree (heading 'Docs', RainbowButton, Button,
\* Label, Input, Button, ToastDemo, NeonGradientCard, RetroGridDemo, in
\* that order) whatever was rendered before, and never throws.
C19_DocsPageAlwaysRendersTheSameTree ==
    call.op = "Page" =>
        /\ [i \in DOMAIN tree |-> tree[i].tag] =
              <<"h1", "RainbowButton", "Button", "Label", "Input", "Button",
                "ToastDemo", "NeonGradientCard", "RetroGridDemo">>
        /\ tree[1].text = "Docs"
        /\ ~threw

\* The docs page rendered after two other pages had been.
C19_Witness ==
    /\ history = <<"ChartsPage", "Profile", "Page">>
    /\ call.op = "Page"
    /\ Len(tree) = 9

============================================================================
